---------------------------- MODULE Spec2Model ----------------------------
(***************************************************************************)
(* Katana static-content server: the request/response pipeline of          *)
(* src/src/response.rs, src/src/server.rs and src/src/utils.rs.            *)
(*                                                                         *)
(* Strings that the code inspects character by character (request paths,   *)
(* file names) are sequences of lexical tokens: the separator "/", the dot *)
(* "." and dot-free, slash-free words.  "index.html" is                    *)
(* <<"index", ".", "html">>, ".." is <<".", ".">>.  Strings that the code  *)
(* only builds and measures (bodies, header values) are TLA+ strings.      *)
(***************************************************************************)
EXTENDS Integers, Sequences, FiniteSets, TLC

(***************************************************************************)
(* Token strings                                                           *)
(***************************************************************************)
SEP == "/"
DOT == "."

\* The text of a token string (String::to_string_lossy, format!("{}")).
RECURSIVE PathStr(_)
PathStr(t) == IF t = <<>> THEN "" ELSE Head(t) \o PathStr(Tail(t))

\* str::starts_with(prefix) on token strings.
StartsWith(t, prefix) ==
    /\ Len(t) >= Len(prefix)
    /\ SubSeq(t, 1, Len(prefix)) = prefix

\* str::contains(needle) on token strings.
Contains(t, needle) ==
    \E i \in 1..(Len(t) + 1) :
        /\ i + Len(needle) - 1 <= Len(t)
        /\ SubSeq(t, i, i + Len(needle) - 1) = needle

\* The literal ".well-known".
WELL_KNOWN == <<DOT, "well-known">>

\* The literal "index.html".
INDEX_HTML == <<"index", DOT, "html">>

(***************************************************************************)
(* std::path: components, join, strip_prefix, file_name, extension         *)
(***************************************************************************)
PARENT_DIR == <<DOT, DOT>>
CUR_DIR == <<DOT>>

\* Path::is_absolute / has_root on Unix.
IsAbsolute(p) == p # <<>> /\ Head(p) = SEP

\* The pieces of p between separators, empty pieces included.
RECURSIVE RawSegmentsFrom(_, _)
RawSegmentsFrom(p, cur) ==
    IF p = <<>> THEN <<cur>>
    ELSE IF Head(p) = SEP THEN <<cur>> \o RawSegmentsFrom(Tail(p), <<>>)
    ELSE RawSegmentsFrom(Tail(p), Append(cur, Head(p)))

RawSegments(p) == RawSegmentsFrom(p, <<>>)

\* Path::components of an absolute path, without the leading RootDir: empty
\* pieces and "." are dropped, ".." is kept as ParentDir.
Components(p) ==
    SelectSeq(RawSegments(p), LAMBDA s : s # <<>> /\ s # CUR_DIR)

\* PathBuf::join: an absolute argument replaces the base; otherwise a
\* separator is added unless the base already ends with one.
Join(base, rel) ==
    IF IsAbsolute(rel) THEN rel
    ELSE IF base # <<>> /\ base[Len(base)] = SEP THEN base \o rel
    ELSE base \o <<SEP>> \o rel

\* Components::trim_left / trim_right: separators and "." pieces at either
\* end of a remainder are not part of it.
RECURSIVE TrimLeft(_)
TrimLeft(t) ==
    IF t = <<>> THEN t
    ELSE IF Head(t) = SEP THEN TrimLeft(Tail(t))
    ELSE IF Head(t) = DOT /\ (Len(t) = 1 \/ t[2] = SEP) THEN TrimLeft(Tail(t))
    ELSE t

RECURSIVE TrimRight(_)
TrimRight(t) ==
    IF t = <<>> THEN t
    ELSE IF t[Len(t)] = SEP THEN TrimRight(SubSeq(t, 1, Len(t) - 1))
    ELSE IF t[Len(t)] = DOT /\ Len(t) >= 2 /\ t[Len(t) - 1] = SEP
         THEN TrimRight(SubSeq(t, 1, Len(t) - 1))
    ELSE t

\* The first piece of a left-trimmed token string, and what follows it.
RECURSIVE FirstSegment(_)
FirstSegment(t) ==
    IF t = <<>> \/ Head(t) = SEP THEN <<>>
    ELSE <<Head(t)>> \o FirstSegment(Tail(t))

\* Path::strip_prefix: component-wise; the result is the untouched text of
\* the remaining components.  [ok |-> FALSE] is Err(StripPrefixError).
RECURSIVE StripComponents(_, _)
StripComponents(t, base) ==
    LET rest == TrimLeft(t) IN
    IF base = <<>> THEN [ok |-> TRUE, rel |-> TrimRight(rest)]
    ELSE LET seg == FirstSegment(rest) IN
         IF seg # <<>> /\ seg = Head(base)
         THEN StripComponents(SubSeq(rest, Len(seg) + 1, Len(rest)), Tail(base))
         ELSE [ok |-> FALSE, rel |-> <<>>]

StripPrefix(p, base) ==
    IF IsAbsolute(p) # IsAbsolute(base) THEN [ok |-> FALSE, rel |-> <<>>]
    ELSE StripComponents(p, Components(base))

\* Path::file_name: the last component unless it is "..".
\* [some |-> FALSE] is None.
FileName(p) ==
    LET c == Components(p) IN
    IF c = <<>> \/ c[Len(c)] = PARENT_DIR THEN [some |-> FALSE, name |-> <<>>]
    ELSE [some |-> TRUE, name |-> c[Len(c)]]

\* Index of the last "." of a name, 0 when there is none.
RECURSIVE LastDot(_, _)
LastDot(name, i) ==
    IF i = 0 THEN 0 ELSE IF name[i] = DOT THEN i ELSE LastDot(name, i - 1)

\* Path::extension: the text after the last "." of the file name; None when
\* there is no file name, no "." in it, or its only "." is the first char.
Extension(p) ==
    LET f == FileName(p) IN
    IF ~f.some THEN [some |-> FALSE, ext |-> ""]
    ELSE LET d == LastDot(f.name, Len(f.name)) IN
         IF d <= 1 THEN [some |-> FALSE, ext |-> ""]
         ELSE [some |-> TRUE, ext |-> PathStr(SubSeq(f.name, d + 1, Len(f.name)))]

(***************************************************************************)
(* The filesystem the server runs on.  A node is named by the names on the *)
(* way to it from "/"; fs lists the nodes in the order read_dir yields     *)
(* them.                                                                   *)
(***************************************************************************)
Dir(p) == [path |-> p, kind |-> "dir", content |-> "", open_ok |-> TRUE, utf8 |-> TRUE]

File(p, c) == [path |-> p, kind |-> "file", content |-> c, open_ok |-> TRUE, utf8 |-> TRUE]

\* A file whose open fails (e.g. permission denied).
LockedFile(p) == [File(p, "locked") EXCEPT !.open_ok = FALSE]

\* A file whose bytes are not valid UTF-8: read_to_string fails.
BinaryFile(p) == [File(p, "") EXCEPT !.utf8 = FALSE]

SRV == <<"srv">>
ETC == <<"etc">>
PUB == <<"pub">>
DOCS == <<"docs">>
GIT == <<DOT, "git">>
HIDDEN == <<DOT, "hidden">>
A_TXT == <<"a", DOT, "txt">>

\* Config::root_dir.
ROOT_DIR == <<SEP, "srv">>

FS_PLAIN == <<
    Dir(<<>>),
    Dir(<<ETC>>),
    File(<<ETC, <<"passwd">>>>, "root:x:0:0"),
    File(<<ETC, <<"hosts", DOT, "txt">>>>, "127.0.0.1 localhost"),
    Dir(<<<<"var">>>>),
    Dir(<<SRV>>),
    File(<<SRV, A_TXT>>, "hello"),
    File(<<SRV, <<"README">>>>, "read me"),
    File(<<SRV, <<"data", DOT, "xyz">>>>, "0123"),
    BinaryFile(<<SRV, <<"bad", DOT, "txt">>>>),
    LockedFile(<<SRV, <<"locked", DOT, "txt">>>>),
    File(<<SRV, <<DOT, "secret">>>>, "s3cret"),
    Dir(<<SRV, GIT>>),
    File(<<SRV, GIT, <<"config", DOT, "txt">>>>, "[core]"),
    Dir(<<SRV, GIT, <<"hooks">>>>),
    Dir(<<SRV, GIT, <<"web">>>>),
    File(<<SRV, GIT, <<"web">>, INDEX_HTML>>, "<p>git</p>"),
    Dir(<<SRV, WELL_KNOWN>>),
    File(<<SRV, WELL_KNOWN, <<"acme", DOT, "txt">>>>, "token"),
    Dir(<<SRV, DOCS>>),
    File(<<SRV, DOCS, INDEX_HTML>>, "<h1>docs</h1>"),
    File(<<SRV, DOCS, <<"z", DOT, "txt">>>>, "z"),
    Dir(<<SRV, PUB>>),
    File(<<SRV, PUB, <<"b", DOT, "txt">>>>, "bee"),
    Dir(<<SRV, PUB, HIDDEN>>),
    File(<<SRV, PUB, HIDDEN, <<"key", DOT, "txt">>>>, "k3y"),
    Dir(<<SRV, PUB, <<"sub">>>>),
    File(<<SRV, PUB, <<DOT, "env">>>>, "E=1")
>>

\* The same tree with an index.html directly under the root.
FS_INDEXED == Append(FS_PLAIN, File(<<SRV, INDEX_HTML>>, "<h1>hi</h1>"))

FileSystems == {FS_PLAIN, FS_INDEXED}

\* What a lookup that finds nothing returns.
NoNode == <<<<"?">>>>

HasNode(f, n) == \E i \in 1..Len(f) : f[i].path = n

NodeAt(f, n) == f[CHOOSE i \in 1..Len(f) : f[i].path = n]

NodeIsDir(f, n) == HasNode(f, n) /\ NodeAt(f, n).kind = "dir"

\* The kernel's path walk over the text of the path: every piece, the empty
\* piece and "." included, needs a directory to stand in; ".." steps up.
RECURSIVE Walk(_, _, _)
Walk(f, segs, cur) ==
    IF segs = <<>> THEN cur
    ELSE IF ~NodeIsDir(f, cur) THEN NoNode
    ELSE LET s == Head(segs) IN
         IF s = <<>> \/ s = CUR_DIR THEN Walk(f, Tail(segs), cur)
         ELSE IF s = PARENT_DIR
              THEN Walk(f, Tail(segs),
                        IF cur = <<>> THEN cur ELSE SubSeq(cur, 1, Len(cur) - 1))
         ELSE IF HasNode(f, Append(cur, s)) THEN Walk(f, Tail(segs), Append(cur, s))
         ELSE NoNode

\* The node an absolute path names (fs::metadata), NoNode when none.
Resolve(f, p) == Walk(f, RawSegments(p), <<>>)

\* Path::is_dir, Path::is_file.
is_dir(f, p) == NodeIsDir(f, Resolve(f, p))

is_file(f, p) == HasNode(f, Resolve(f, p)) /\ NodeAt(f, Resolve(f, p)).kind = "file"

\* n lies in the tree below top (top itself included).
IsDescendant(n, top) == Len(n) >= Len(top) /\ SubSeq(n, 1, Len(top)) = top

(***************************************************************************)
(* Utils::walk_dir                                                         *)
(***************************************************************************)
is_valid_entry(name) == ~StartsWith(name, <<DOT>>)

\* fs::read_dir: the direct children, in the filesystem's order; nothing
\* when the directory cannot be read.
read_dir(f, p) ==
    LET n == Resolve(f, p) IN
    IF ~NodeIsDir(f, n) \/ ~NodeAt(f, n).open_ok THEN <<>>
    ELSE SelectSeq(f, LAMBDA e : Len(e.path) = Len(n) + 1 /\ IsDescendant(e.path, n))

RECURSIVE WalkEntries(_, _)
WalkEntries(p, entries) ==
    IF entries = <<>> THEN <<>>
    ELSE LET e == Head(entries)
             name == e.path[Len(e.path)]
             entry_path == Join(p, name)
         IN (IF is_valid_entry(name)
             THEN <<[entry_type |-> IF e.kind = "dir" THEN "directory" ELSE "file",
                     entry_name |-> name,
                     entry_path |-> IF e.kind = "dir" /\ entry_path[Len(entry_path)] # SEP
                                    THEN Append(entry_path, SEP) ELSE entry_path]>>
             ELSE <<>>) \o WalkEntries(p, Tail(entries))

walk_dir(f, p) == WalkEntries(p, read_dir(f, p))

(***************************************************************************)
(* HTTP vocabulary (crate::http, crate::filetype, crate::request)          *)
(***************************************************************************)
HttpStatuses == {"Ok", "Forbidden", "NotFound", "MethodNotAllowed", "InternalServerError"}

ErrorStatuses == HttpStatuses \ {"Ok"}

\* HttpStatus::to_code.
to_code(status) ==
    CASE status = "Ok" -> 200
      [] status = "Forbidden" -> 403
      [] status = "NotFound" -> 404
      [] status = "MethodNotAllowed" -> 405
      [] status = "InternalServerError" -> 500

\* HttpStatus::to_message: the reason phrase.
to_message(status) ==
    CASE status = "Ok" -> "OK"
      [] status = "Forbidden" -> "Forbidden"
      [] status = "NotFound" -> "Not Found"
      [] status = "MethodNotAllowed" -> "Method Not Allowed"
      [] status = "InternalServerError" -> "Internal Server Error"

\* FileType::from_extension and FileType::content_disposition: the MIME
\* table, None for an extension it does not list.
from_extension(ext) ==
    CASE ext = "html" -> [some |-> TRUE, content_type |-> "text/html", disposition |-> "inline"]
      [] ext = "txt" -> [some |-> TRUE, content_type |-> "text/plain", disposition |-> "inline"]
      [] OTHER -> [some |-> FALSE, content_type |-> "", disposition |-> ""]

\* FileType::new("bin", "application/octet-stream", "Binary File").
BinaryFileType ==
    [some |-> TRUE, content_type |-> "application/octet-stream", disposition |-> "attachment"]

\* A length that counts one byte more than the body holds.
LenStr_OffByOne(body) == ToString(Len(body) + 1)

\* usize::to_string.
LenStr(body) == ToString(Len(body))

(***************************************************************************)
(* Response (src/src/response.rs)                                          *)
(***************************************************************************)
\* Response::new.
NewResponse ==
    [http_version |-> "HTTP/1.1", status_code |-> "Ok",
     headers |-> <<>>, cookies |-> <<>>, body |-> ""]

\* The body serve_error_response renders for a status.
ErrorPage(status) == "<html><body><h1>" \o to_message(status) \o "</h1></body></html>"

\* serve_error_response with Content-Length taken before the body is set.
serve_error_response_StaleLength(resp, status) ==
    [resp EXCEPT !.status_code = status,
                 !.body = ErrorPage(status),
                 !.headers = <<<<"Content-Type", "text/html">>,
                               <<"Content-Length", LenStr(resp.body)>>>>]

\* Response::serve_error_response.
serve_error_response(resp, status) ==
    LET body == ErrorPage(status) IN
    [resp EXCEPT !.status_code = status,
                 !.body = body,
                 !.headers = <<<<"Content-Type", "text/html">>,
                               <<"Content-Length", LenStr(body)>>>>]

\* A handler either returns (the response it leaves) or panics, which ends
\* the connection's thread before anything is written.
Returned(resp) == [panicked |-> FALSE, response |-> resp]

Panicked(resp) == [panicked |-> TRUE, response |-> resp]

\* strip_prefix with the "/" fallback of serve_file and serve_directory.
RelativeOrSlash(path, root_dir) ==
    LET r == StripPrefix(path, root_dir) IN
    IF r.ok THEN r.rel ELSE <<SEP>>

\* The dot-prefix test both handlers apply to the relative path.
DotPrefixed(relative_path) ==
    StartsWith(relative_path, <<SEP, DOT>>) \/ StartsWith(relative_path, <<DOT>>)

\* Response::serve_file, from File::open on.
OpenAndRead(f, resp, path) ==
    LET node == NodeAt(f, Resolve(f, path)) IN
    IF ~node.open_ok THEN Returned(serve_error_response(resp, "NotFound"))
    ELSE LET extension == Extension(path) IN
         IF ~extension.some THEN Panicked(resp)
         ELSE LET known == from_extension(extension.ext)
                  file_type == IF known.some THEN known ELSE BinaryFileType
              IN IF node.utf8
                 THEN Returned([resp EXCEPT
                          !.body = node.content,
                          !.status_code = "Ok",
                          !.headers = <<<<"Content-Type", file_type.content_type>>,
                                        <<"Content-Length", LenStr(node.content)>>,
                                        <<"Content-Disposition", file_type.disposition>>>>])
                 ELSE Returned(serve_error_response(resp, "InternalServerError"))

\* The two checks of Response::serve_file that answer 403: the relative
\* path starts with a dot and holds no ".well-known", or the file name
\* starts with a dot and is not ".well-known".
DotBlocked(root_path, path) ==
    LET name == FileName(path)
        relative_path == RelativeOrSlash(path, root_path)
    IN \/ DotPrefixed(relative_path) /\ ~Contains(relative_path, WELL_KNOWN)
       \/ StartsWith(name.name, <<DOT>>) /\ name.name # WELL_KNOWN

\* Response::serve_file.
serve_file(f, resp, root_path, path) ==
    IF ~FileName(path).some THEN Panicked(resp)
    ELSE IF DotBlocked(root_path, path)
         THEN Returned(serve_error_response(resp, "Forbidden"))
    ELSE OpenAndRead(f, resp, path)

\* One <li> of a listing.
ListItem(href, label) ==
    "<li><a href='" \o PathStr(href) \o "'>" \o PathStr(label) \o "</a></li>"

\* The <li> lines of the entries of one type, in walk_dir's order.
RECURSIVE ListItems(_, _, _)
ListItems(entries, entry_type, root_dir) ==
    IF entries = <<>> THEN ""
    ELSE LET e == Head(entries) IN
         (IF e.entry_type = entry_type
          THEN ListItem(SubSeq(e.entry_path, Len(root_dir) + 1, Len(e.entry_path)),
                        e.entry_name)
          ELSE "") \o ListItems(Tail(entries), entry_type, root_dir)

\* The listing's body.
ListingBody(relative_path, listing_html) ==
    "<html><body><h1>Directory listing for " \o PathStr(relative_path)
        \o "</h1><ul>" \o listing_html \o "</ul></body></html>"

PARENT_LINK == "<li><a href='../'>..</a></li>"

EMPTY_FOLDER == "<li><b>Empty Folder</b></li>"

\* Response::serve_directory.
serve_directory(f, resp, root_path, path) ==
    LET relative_path == <<SEP>> \o RelativeOrSlash(path, root_path)
        entries == walk_dir(f, path)
    IN IF DotPrefixed(relative_path)
       THEN Returned(serve_error_response(resp, "Forbidden"))
       \* str::strip_prefix(root_dir).unwrap() on every entry path
       ELSE IF \E i \in 1..Len(entries) : ~StartsWith(entries[i].entry_path, root_path)
            THEN Panicked(resp)
       ELSE LET listing_html ==
                    (IF relative_path # <<SEP>> THEN PARENT_LINK ELSE "")
                    \o (IF Len(entries) = 0 THEN EMPTY_FOLDER ELSE "")
                    \o ListItems(entries, "directory", root_path)
                    \o ListItems(entries, "file", root_path)
                body == ListingBody(relative_path, listing_html)
            IN Returned([resp EXCEPT
                   !.body = body,
                   !.status_code = "Ok",
                   !.headers = <<<<"Content-Type", "text/html">>,
                                 <<"Content-Length", LenStr(body)>>>>])

\* The path Response::serve looks up: root_dir.join(&path[1..]).
JoinedPath(root_dir, request_path) == Join(root_dir, Tail(request_path))

\* Dispatch without the index.html lookup: every directory is listed.
Dispatch_NoIndex(f, root_dir, request_path) ==
    LET file_path == JoinedPath(root_dir, request_path) IN
    IF is_dir(f, file_path) THEN [handler |-> "serve_directory", path |-> file_path]
    ELSE IF is_file(f, file_path) THEN [handler |-> "serve_file", path |-> file_path]
    ELSE [handler |-> "serve_error_response", path |-> <<>>]

\* The branch Response::serve takes: the handler it calls and the path it
\* hands to it (none in the 404 branch).
Dispatch(f, root_dir, request_path) ==
    LET file_path == JoinedPath(root_dir, request_path)
        index_html == Join(file_path, INDEX_HTML)
    IN IF is_dir(f, file_path)
       THEN (IF is_file(f, index_html)
             THEN [handler |-> "serve_file", path |-> index_html]
             ELSE [handler |-> "serve_directory", path |-> file_path])
       ELSE IF is_file(f, file_path)
            THEN [handler |-> "serve_file", path |-> file_path]
       ELSE [handler |-> "serve_error_response", path |-> <<>>]

\* Response::serve.
serve(f, resp, root_dir, request_path) ==
    LET d == Dispatch(f, root_dir, request_path) IN
    CASE d.handler = "serve_file" -> serve_file(f, resp, root_dir, d.path)
      [] d.handler = "serve_directory" -> serve_directory(f, resp, root_dir, d.path)
      [] OTHER -> Returned(serve_error_response(resp, "NotFound"))

\* char::is_whitespace for the characters the model's strings hold.
IsWhitespace(c) == c \in {" ", "\t", "\r", "\n"}

\* str::trim: leading and trailing whitespace removed.
RECURSIVE trim_start(_)
trim_start(s) ==
    IF Len(s) > 0 /\ IsWhitespace(SubSeq(s, 1, 1))
    THEN trim_start(SubSeq(s, 2, Len(s))) ELSE s

RECURSIVE trim_end(_)
trim_end(s) ==
    IF Len(s) > 0 /\ IsWhitespace(SubSeq(s, Len(s), Len(s)))
    THEN trim_end(SubSeq(s, 1, Len(s) - 1)) ELSE s

\* A trim that leaves trailing whitespace in place.
trim_LeadingOnly(s) == trim_start(s)

trim(s) == trim_end(trim_start(s))

\* Response::to_string: the header lines.
RECURSIVE HeaderLines(_)
HeaderLines(hs) ==
    IF hs = <<>> THEN ""
    ELSE trim(Head(hs)[1]) \o ": " \o trim(Head(hs)[2]) \o "\r\n"
             \o HeaderLines(Tail(hs))

\* Response::to_string: the cookie lines.
RECURSIVE CookieLines(_)
CookieLines(cs) ==
    IF cs = <<>> THEN ""
    ELSE "Set-Cookie: " \o trim(Head(cs)[1]) \o "=" \o trim(Head(cs)[2]) \o "\r\n"
             \o CookieLines(Tail(cs))

\* Response::to_string.
to_string(resp) ==
    resp.http_version \o " " \o ToString(to_code(resp.status_code)) \o " "
        \o to_message(resp.status_code) \o "\r\n"
        \o HeaderLines(resp.headers) \o CookieLines(resp.cookies)
        \o "\r\n" \o resp.body

(***************************************************************************)
(* Utils::datetime_rfc_1123 (src/src/utils.rs)                             *)
(***************************************************************************)
\* A leap-year test without the 400-year rule.
is_leap_year_NoCentury(year) == year % 4 = 0 /\ year % 100 # 0

is_leap_year(year) == (year % 4 = 0 /\ year % 100 # 0) \/ (year % 400 = 0)

YearLength(year) == IF is_leap_year(year) THEN 366 ELSE 365

\* The "adjust for years" loop: <<year, day of the year>>.
RECURSIVE YearLoop(_, _)
YearLoop(year, days) ==
    IF days >= YearLength(year) THEN YearLoop(year + 1, days - YearLength(year))
    ELSE <<year, days>>

month_days(year) ==
    <<31, IF is_leap_year(year) THEN 29 ELSE 28, 31, 30, 31, 30, 31, 31, 30, 31, 30, 31>>

month_names == <<"Jan", "Feb", "Mar", "Apr", "May", "Jun",
                 "Jul", "Aug", "Sep", "Oct", "Nov", "Dec">>

weekday_names == <<"Sat", "Sun", "Mon", "Tue", "Wed", "Thu", "Fri">>

\* The month loop: <<month (0-based), day of the month (0-based)>>.
RECURSIVE MonthLoop(_, _, _)
MonthLoop(year, month, days) ==
    IF days >= month_days(year)[month + 1]
    THEN MonthLoop(year, month + 1, days - month_days(year)[month + 1])
    ELSE <<month, days>>

\* Zeller's congruence as the code applies it: 0 = Saturday.
Zeller(year, month, day) ==
    LET m == IF month + 1 <= 2 THEN month + 1 + 12 ELSE month + 1
        y == IF month + 1 <= 2 THEN year - 1 ELSE year
        k == y % 100
        j == y \div 100
        h == (day + ((13 * (m + 1)) \div 5) + k + (k \div 4) + (j \div 4) + (5 * j)) % 7
    IN (h + 7) % 7

\* {:02} and {:04}.
Pad2(n) == IF n < 10 THEN "0" \o ToString(n) ELSE ToString(n)

Pad4(n) ==
    IF n < 10 THEN "000" \o ToString(n)
    ELSE IF n < 100 THEN "00" \o ToString(n)
    ELSE IF n < 1000 THEN "0" \o ToString(n)
    ELSE ToString(n)

\* The date fields computed from secs / 86400 and secs % 86400.
DateFieldsOf(days_since_epoch, secs_of_day) ==
    LET yd == YearLoop(1970, days_since_epoch)
        md == MonthLoop(yd[1], 0, yd[2])
    IN [year |-> yd[1], month |-> md[1], day |-> md[2] + 1,
        weekday |-> Zeller(yd[1], md[1], md[2] + 1),
        hours |-> (secs_of_day \div 3600) % 24,
        minutes |-> (secs_of_day % 3600) \div 60,
        seconds |-> secs_of_day % 60]

\* The date fields computed for secs seconds since the epoch.
DateFields(secs) == DateFieldsOf(secs \div 86400, secs % 86400)

\* The format! of the date fields.
FormatDate(d) ==
    weekday_names[d.weekday + 1] \o ", " \o Pad2(d.day) \o " "
        \o month_names[d.month + 1] \o " " \o Pad4(d.year) \o " "
        \o Pad2(d.hours) \o ":" \o Pad2(d.minutes) \o ":" \o Pad2(d.seconds) \o " GMT"

datetime_rfc_1123(secs) == FormatDate(DateFields(secs))

(***************************************************************************)
(* Server (src/src/server.rs)                                              *)
(***************************************************************************)
SERVER_NAME == "Katana"

SERVER_VERSION == "0.1.0"

SUPPORTED_HTTP_METHODS == <<"GET", "HEAD", "OPTIONS", "TRACE">>

\* The methods a request may carry: the supported ones and other verbs.
HttpMethods == {"GET", "HEAD", "OPTIONS", "TRACE", "POST", "DELETE"}

\* A supported-set test that leaves TRACE out.
IsSupported_NoTrace(method) == method \in {"GET", "HEAD", "OPTIONS"}

IsSupported(method) ==
    \E i \in 1..Len(SUPPORTED_HTTP_METHODS) : SUPPORTED_HTTP_METHODS[i] = method

\* HttpMethod::comma_separated.
RECURSIVE comma_separated(_)
comma_separated(methods) ==
    IF methods = <<>> THEN ""
    ELSE IF Len(methods) = 1 THEN Head(methods)
    ELSE Head(methods) \o ", " \o comma_separated(Tail(methods))

\* Request::http_description: the request line and the headers as text.
RECURSIVE RequestHeaderLines(_)
RequestHeaderLines(hs) ==
    IF hs = <<>> THEN ""
    ELSE Head(hs)[1] \o ": " \o Head(hs)[2] \o "\r\n" \o RequestHeaderLines(Tail(hs))

http_description(req) ==
    req.method \o " " \o PathStr(req.path) \o " " \o req.http_version \o "\r\n"
        \o RequestHeaderLines(req.headers)

\* Server::version.
version == SERVER_NAME \o " " \o SERVER_VERSION

\* A transformation that puts the Server header in front of the others.
server_transformation_First(resp) ==
    [resp EXCEPT !.headers = <<<<"Server", version>>>> \o @]

\* Server::server_transformation.
server_transformation(resp) ==
    [resp EXCEPT !.headers = Append(@, <<"Server", version>>)]

\* The branches of Server::method_handle, each the body of one `if`.
\* A HEAD branch that also drops the Content-Length of the unsent body.
HeadBranch_DropLength(resp) ==
    [resp EXCEPT
        !.body = "",
        !.headers = SelectSeq(@, LAMBDA h : h[1] # "Content-Length")]

HeadBranch(resp) == [resp EXCEPT !.body = ""]

\* An OPTIONS branch that flushes the resolver's headers before appending.
OptionsBranch_Clearing(resp, now) ==
    [resp EXCEPT
        !.body = "",
        !.headers = <<<<"Date", datetime_rfc_1123(now)>>,
                      <<"Allow", comma_separated(SUPPORTED_HTTP_METHODS)>>,
                      <<"Access-Control-Allow-Origin", "*">>,
                      <<"Access-Control-Allow-Methods",
                        comma_separated(SUPPORTED_HTTP_METHODS)>>>>]

\* The OPTIONS branch, given the text Utils::datetime_rfc_1123 returned.
OptionsHeaders(resp, date) ==
    [resp EXCEPT
        !.body = "",
        !.headers = @ \o <<<<"Date", date>>,
                           <<"Allow", comma_separated(SUPPORTED_HTTP_METHODS)>>,
                           <<"Access-Control-Allow-Origin", "*">>,
                           <<"Access-Control-Allow-Methods",
                             comma_separated(SUPPORTED_HTTP_METHODS)>>>>]

OptionsBranch(resp, now) == OptionsHeaders(resp, datetime_rfc_1123(now))

\* A TRACE branch whose Content-Length counts the description without the
\* CRLF put in front of it.
TraceBranch_LengthOfDescription(resp, req) ==
    [resp EXCEPT
        !.status_code = "Ok",
        !.headers = <<<<"Content-Type", "message/http">>,
                      <<"Content-Length", ToString(Len(http_description(req)))>>>>,
        !.body = "\r\n" \o http_description(req)]

TraceBranch(resp, req) ==
    LET body == "\r\n" \o http_description(req) IN
    [resp EXCEPT
        !.status_code = "Ok",
        !.headers = <<<<"Content-Type", "message/http">>,
                      <<"Content-Length", LenStr(body)>>>>,
        !.body = body]

UnsupportedBranch(resp) ==
    [resp EXCEPT
        !.body = "",
        !.headers = <<<<"Allow", comma_separated(SUPPORTED_HTTP_METHODS)>>>>,
        !.status_code = "MethodNotAllowed"]

\* The conditions of the five `if`s of Server::method_handle.
BranchApplies(branch, method) ==
    CASE branch = "GET" -> method = "GET"
      [] branch = "HEAD" -> method = "HEAD"
      [] branch = "OPTIONS" -> method = "OPTIONS"
      [] branch = "TRACE" -> method = "TRACE"
      [] branch = "UNSUPPORTED" -> ~IsSupported(method)

\* One `if` of Server::method_handle: its body when its condition holds.
ApplyBranch(branch, resp, req, now) ==
    IF ~BranchApplies(branch, req.method) THEN resp
    ELSE CASE branch = "GET" -> resp
           [] branch = "HEAD" -> HeadBranch(resp)
           [] branch = "OPTIONS" -> OptionsBranch(resp, now)
           [] branch = "TRACE" -> TraceBranch(resp, req)
           [] branch = "UNSUPPORTED" -> UnsupportedBranch(resp)

\* The `if`s evaluated one after the other in the given order.
RECURSIVE ApplyBranches(_, _, _, _)
ApplyBranches(order, resp, req, now) ==
    IF order = <<>> THEN resp
    ELSE ApplyBranches(Tail(order), ApplyBranch(Head(order), resp, req, now), req, now)

\* The order of the `if`s in the source.
BRANCH_ORDER == <<"GET", "HEAD", "OPTIONS", "TRACE", "UNSUPPORTED">>

\* Server::method_handle.
method_handle(resp, req, now) == ApplyBranches(BRANCH_ORDER, resp, req, now)

(***************************************************************************)
(* The requests and clock readings the model feeds the server              *)
(***************************************************************************)
\* The text "/" seg1 "/" seg2 ... of a request path.
RECURSIVE SlashJoined(_)
SlashJoined(segs) ==
    IF segs = <<>> THEN <<>> ELSE <<SEP>> \o Head(segs) \o SlashJoined(Tail(segs))

\* The longest request path, in pieces, that is built from every
\* combination of SegmentNames.
MaxSegments == 2

\* The pieces request paths are combined from: the empty piece (a doubled
\* or trailing slash), ".", "..", and names in and around the served tree.
SegmentNames ==
    {<<>>, CUR_DIR, PARENT_DIR, A_TXT, <<"README">>, <<"missing", DOT, "txt">>,
     <<DOT, "secret">>, GIT, WELL_KNOWN, HIDDEN, DOCS, PUB, ETC, INDEX_HTML}

RECURSIVE SegmentSeqs(_)
SegmentSeqs(n) ==
    IF n = 0 THEN {<<>>}
    ELSE LET shorter == SegmentSeqs(n - 1) IN
         shorter \cup {Append(segs, s) : segs \in shorter, s \in SegmentNames}

\* Longer paths that reach particular files and directories.
DeepPaths == {
    SlashJoined(<<<<"data", DOT, "xyz">>>>),
    SlashJoined(<<<<"bad", DOT, "txt">>>>),
    SlashJoined(<<<<"locked", DOT, "txt">>>>),
    SlashJoined(<<GIT, <<"config", DOT, "txt">>>>),
    SlashJoined(<<GIT, <<"hooks">>>>),
    SlashJoined(<<GIT, <<"web">>>>),
    SlashJoined(<<GIT, <<"nothing">>>>),
    SlashJoined(<<WELL_KNOWN, <<"acme", DOT, "txt">>>>),
    SlashJoined(<<DOCS, <<"z", DOT, "txt">>>>),
    SlashJoined(<<PUB, <<"sub">>>>),
    SlashJoined(<<PUB, <<"b", DOT, "txt">>>>),
    SlashJoined(<<PUB, <<DOT, "env">>>>),
    SlashJoined(<<PUB, HIDDEN, <<"key", DOT, "txt">>>>),
    SlashJoined(<<PUB, PARENT_DIR, PARENT_DIR, ETC>>),
    SlashJoined(<<PUB, PARENT_DIR, PARENT_DIR, ETC, <<"hosts", DOT, "txt">>>>),
    SlashJoined(<<PARENT_DIR, ETC, <<"hosts", DOT, "txt">>>>),
    SlashJoined(<<<<>>, ETC, <<"passwd">>>>),
    SlashJoined(<<<<>>, ETC, <<"hosts", DOT, "txt">>>>),
    SlashJoined(<<<<>>, <<"var">>>>),
    SlashJoined(<<<<>>, SRV, <<DOT, "secret">>>>)
}

\* Every request path starts with "/".
RequestPaths ==
    {SlashJoined(segs) : segs \in SegmentSeqs(MaxSegments) \ {<<>>}} \cup DeepPaths

Requests ==
    [method : HttpMethods, path : RequestPaths, http_version : {"HTTP/1.1"},
     headers : {<<<<"Host", "localhost">>>>}]

\* Before a request is parsed.
NoRequest == [method |-> "", path |-> <<>>, http_version |-> "", headers |-> <<>>]

NoCall == [handler |-> "", path |-> <<>>]

\* SystemTime::now() readings, in seconds since the epoch: 1970-01-01,
\* 2000-02-29, 2024-12-31 23:59:59.
Timestamps == {0, 951782400, 1735689599}

(***************************************************************************)
(* The listener and one connection's handler                               *)
(***************************************************************************)
VARIABLES
    fs,         \* the filesystem under and around root_dir
    pc,         \* where the connection's handler stands
    request,    \* the parsed Request
    response,   \* the Response the pipeline mutates
    call,       \* the handler Response::serve called, and its path argument
    stream,     \* the bytes written to the connection
    log         \* the Logger lines of this connection

vars == <<fs, pc, request, response, call, stream, log>>

Init ==
    /\ fs \in FileSystems
    /\ pc = "listening"
    /\ request = NoRequest
    /\ response = NewResponse
    /\ call = NoCall
    /\ stream = ""
    /\ log = <<>>

\* Server::serve: the listener accepts a connection and spawns its thread.
Accept ==
    /\ pc \in {"listening", "closed", "panicked"}
    /\ pc' = "handle_request"
    /\ request' = NoRequest
    /\ response' = NewResponse
    /\ call' = NoCall
    /\ stream' = ""
    /\ log' = <<>>
    /\ UNCHANGED fs

\* Server::handle_request: Request::from_stream yields a request, and
\* handle_response wraps it in Response::new (which always returns Some, so
\* the "Failed to send response." branch is never taken).
HandleRequest ==
    /\ pc = "handle_request"
    /\ \E req \in Requests : request' = req
    /\ response' = NewResponse
    /\ pc' = "serve"
    /\ UNCHANGED <<fs, call, stream, log>>

\* Server::handle_request: Request::from_stream yields None.
ParseFailure ==
    /\ pc = "handle_request"
    /\ log' = Append(log, [level |-> "warn", message |-> "Failed to read request."])
    /\ pc' = "closed"
    /\ UNCHANGED <<fs, request, response, call, stream>>

\* response.serve(&self.config.root_dir).  A panic unwinds the thread.
Serve ==
    /\ pc = "serve"
    /\ LET r == serve(fs, response, ROOT_DIR, request.path) IN
        /\ call' = Dispatch(fs, ROOT_DIR, request.path)
        /\ response' = r.response
        /\ pc' = IF r.panicked THEN "panicked" ELSE "method_handle"
    /\ UNCHANGED <<fs, request, stream, log>>

\* self.method_handle(&mut response).
MethodHandle ==
    /\ pc = "method_handle"
    /\ \E now \in Timestamps : response' = method_handle(response, request, now)
    /\ pc' = "server_transformation"
    /\ UNCHANGED <<fs, request, call, stream, log>>

\* self.server_transformation(&mut response).
ServerTransformation ==
    /\ pc = "server_transformation"
    /\ response' = server_transformation(response)
    /\ pc' = "stream"
    /\ UNCHANGED <<fs, request, call, stream, log>>

\* response.stream(...) succeeds and log_response logs the outcome.
StreamOk ==
    /\ pc = "stream"
    /\ stream' = to_string(response)
    /\ log' = Append(log, [level |-> "info",
                           message |-> ToString(to_code(response.status_code))])
    /\ pc' = "closed"
    /\ UNCHANGED <<fs, request, response, call>>

\* response.stream(...) fails: the error is logged.
StreamErr ==
    /\ pc = "stream"
    /\ log' = Append(log, [level |-> "error", message |-> "write failed"])
    /\ pc' = "closed"
    /\ UNCHANGED <<fs, request, response, call, stream>>

Next ==
    \/ Accept
    \/ HandleRequest
    \/ ParseFailure
    \/ Serve
    \/ MethodHandle
    \/ ServerTransformation
    \/ StreamOk
    \/ StreamErr

Spec == Init /\ [][Next]_vars

(***************************************************************************)
(* Vocabulary of the properties                                            *)
(***************************************************************************)
\* The node root_dir names.
RootNode == Resolve(fs, ROOT_DIR)

\* The pieces of the request path after its first character.
RequestSegments == RawSegments(Tail(request.path))

\* A file or directory name that starts with a dot ("." and ".." are not names).
IsDotName(seg) == StartsWith(seg, <<DOT>>) /\ seg # CUR_DIR /\ seg # PARENT_DIR

\* serve has returned and method_handle has not run yet.
AfterServe == pc = "method_handle"

\* The handler has nothing more to do for a parsed request: the response is
\* ready to be written or written, or the thread has panicked.
PipelineEnded == request # NoRequest /\ pc \in {"stream", "closed", "panicked"}

\* The node serve handed to serve_file or serve_directory.
ServedNode == Resolve(fs, call.path)

\* serve answered 200 with the content or the listing of ServedNode.
ServedContent ==
    /\ AfterServe
    /\ call.handler \in {"serve_file", "serve_directory"}
    /\ response.status_code = "Ok"

\* The values of the headers called name, in order.
HeaderValues(resp, name) ==
    LET hs == SelectSeq(resp.headers, LAMBDA h : h[1] = name) IN
    [i \in 1..Len(hs) |-> hs[i][2]]

HeaderNames(resp) == [i \in 1..Len(resp.headers) |-> resp.headers[i][1]]

\* The error-page pair of a status: headers and body.
IsErrorPage(resp) ==
    /\ resp.body = ErrorPage(resp.status_code)
    /\ resp.headers = <<<<"Content-Type", "text/html">>,
                        <<"Content-Length", LenStr(resp.body)>>>>

(***************************************************************************)
(* C1 -- path-traversal invariant, paths without a ".." piece              *)
(***************************************************************************)
\* C1: for every request path with no ".." piece (paths such as
\* //etc/passwd included), the path serve joins from root_dir and the
\* request path, and reads a file or lists a directory from, names a
\* descendant of root_dir.
C1_JoinedPathUnderRoot ==
    (ServedContent /\ \A i \in 1..Len(RequestSegments) : RequestSegments[i] # PARENT_DIR)
        => IsDescendant(ServedNode, RootNode)

(***************************************************************************)
(* C2 -- path-traversal invariant, every path                              *)
(***************************************************************************)
\* C2: for every request path, ".." pieces in any position included, no
\* 200 response of serve_file or serve_directory carries the content or the
\* listing of an object outside root_dir.  Stated here for the paths whose
\* remainder after the leading "/" is relative, which C1 does not decide.
C2_NoContentFromOutsideRoot ==
    (ServedContent /\ ~IsAbsolute(Tail(request.path)))
        => IsDescendant(ServedNode, RootNode)

(***************************************************************************)
(* C3 -- 403 under a dot-directory whether or not the target exists        *)
(***************************************************************************)
\* C3: a request whose first root-relative piece is a dot-name and whose
\* path holds no ".well-known" is answered 403 by serve, when the target is
\* a file, a directory, or does not exist.
C3_DotDirectoryAlwaysForbidden ==
    (/\ AfterServe
     /\ IsDotName(RequestSegments[1])
     /\ ~Contains(request.path, WELL_KNOWN))
        => response.status_code = "Forbidden"

(***************************************************************************)
(* C4 -- dotfiles and dot-directories are invisible at every depth         *)
(***************************************************************************)
\* C4: serve never answers 200 with the content of a file, or the listing
\* of a directory, that has a dot-name anywhere on its way down from root
\* (".well-known" subtrees excepted).
C4_DotNamesInvisibleAtEveryDepth ==
    (/\ ServedContent
     /\ IsDescendant(ServedNode, RootNode)
     /\ ~Contains(request.path, WELL_KNOWN))
        => \A i \in (Len(RootNode) + 1)..Len(ServedNode) : ~IsDotName(ServedNode[i])

(***************************************************************************)
(* C5 -- unsupported methods end in 405 for every path                     *)
(***************************************************************************)
AllowOnly == <<<<"Allow", "GET, HEAD, OPTIONS, TRACE">>, <<"Server", "Katana 0.1.0">>>>

\* C5: for every request with a method outside GET, HEAD, OPTIONS, TRACE
\* and for every path, the pipeline ends with status 405, an empty body and
\* the Allow header (followed only by Server); nothing of what serve
\* produced survives.
C5_UnsupportedMethodEndsIn405 ==
    (PipelineEnded /\ request.method \notin {"GET", "HEAD", "OPTIONS", "TRACE"})
        => /\ pc # "panicked"
           /\ response.status_code = "MethodNotAllowed"
           /\ response.body = ""
           /\ response.headers = AllowOnly

(***************************************************************************)
(* C6 -- TRACE ends in 200 with the echo for every path                    *)
(***************************************************************************)
\* C6: for every TRACE request and every path, the pipeline ends with
\* status 200, Content-Type message/http, a body of CRLF followed by the
\* request's description, a Content-Length of that body's length, and no
\* header of serve left.
C6_TraceEndsIn200 ==
    (PipelineEnded /\ request.method = "TRACE")
        => /\ pc # "panicked"
           /\ response.status_code = "Ok"
           /\ response.body = "\r\n" \o http_description(request)
           /\ response.headers = <<<<"Content-Type", "message/http">>,
                                   <<"Content-Length", LenStr(response.body)>>,
                                   <<"Server", "Katana 0.1.0">>>>

(***************************************************************************)
(* C7 -- an error status carries exactly the error-page pair               *)
(***************************************************************************)
\* C7 as stated: after every pipeline stage (serve, method_handle,
\* server_transformation) and for every method, an error status (403, 404,
\* 405, 500) comes with exactly the headers Content-Type: text/html and
\* Content-Length: n, n the length of the body, and the status's error page
\* as the body.
C7_ErrorStatusAlwaysErrorPage ==
    (/\ pc \in {"method_handle", "server_transformation", "stream"}
     /\ response.status_code \in ErrorStatuses)
        => IsErrorPage(response)

\* C7 as amended: the pair is exact after serve, and after method_handle
\* for GET; server_transformation then appends Server and nothing else.
\* The error statuses met there are 403, 404 and 500.
C7_ErrorPageAfterServe ==
    /\ (/\ pc = "method_handle" \/ (pc = "server_transformation" /\ request.method = "GET")
        /\ response.status_code \in ErrorStatuses)
           => /\ IsErrorPage(response)
              /\ response.status_code \in {"Forbidden", "NotFound", "InternalServerError"}
    /\ (/\ pc = "stream" /\ request.method = "GET"
        /\ response.status_code \in ErrorStatuses)
           => /\ response.body = ErrorPage(response.status_code)
              /\ response.headers = <<<<"Content-Type", "text/html">>,
                                      <<"Content-Length", LenStr(response.body)>>,
                                      <<"Server", "Katana 0.1.0">>>>

\* A GET for a forbidden path has passed method_handle.
C7_Witness ==
    /\ pc = "server_transformation"
    /\ request.method = "GET"
    /\ response.status_code = "Forbidden"
    /\ IsErrorPage(response)

(***************************************************************************)
(* C8 -- every readable file is served, whatever its extension             *)
(***************************************************************************)
\* serve called serve_file on a file that passes the dot checks.
ServeFileAllowed ==
    /\ pc \in {"method_handle", "panicked"}
    /\ call.handler = "serve_file"
    /\ ~DotBlocked(ROOT_DIR, call.path)

\* C8: for every readable regular file that passes the dot-prefix check,
\* serve_file returns status 200 with the headers Content-Type,
\* Content-Length, Content-Disposition; with an extension the MIME table
\* does not list, or with no extension, the Content-Type is
\* application/octet-stream and the handler still returns.
C8_ReadableFileServed ==
    (/\ ServeFileAllowed
     /\ NodeAt(fs, ServedNode).open_ok
     /\ NodeAt(fs, ServedNode).utf8)
        => /\ pc = "method_handle"
           /\ response.status_code = "Ok"
           /\ HeaderNames(response) = <<"Content-Type", "Content-Length", "Content-Disposition">>
           /\ (\/ ~Extension(call.path).some
               \/ ~from_extension(Extension(call.path).ext).some)
                  => HeaderValues(response, "Content-Type") = <<"application/octet-stream">>

(***************************************************************************)
(* C9 -- a file that cannot be read yields 500                             *)
(***************************************************************************)
\* C9: when the target is a regular file that passes the dot-prefix check
\* and cannot be opened, or opens and cannot be read as text, serve_file
\* answers 500.
C9_UnreadableFileIs500 ==
    (/\ AfterServe
     /\ call.handler = "serve_file"
     /\ ~DotBlocked(ROOT_DIR, call.path)
     /\ (~NodeAt(fs, ServedNode).open_ok \/ ~NodeAt(fs, ServedNode).utf8))
        => response.status_code = "InternalServerError"

(***************************************************************************)
(* C10 -- serve dispatches on the kind of the joined path                  *)
(***************************************************************************)
\* The request path of the index.html inside the requested directory.
IndexRequestPath ==
    IF request.path[Len(request.path)] = SEP THEN request.path \o INDEX_HTML
    ELSE request.path \o <<SEP>> \o INDEX_HTML

\* A file serve_file can read and may serve.
Servable(path) ==
    /\ ~DotBlocked(ROOT_DIR, path)
    /\ NodeAt(fs, Resolve(fs, path)).open_ok
    /\ NodeAt(fs, Resolve(fs, path)).utf8
    /\ Extension(path).some

Written == pc = "closed" /\ stream # ""

(***************************************************************************)
(* C11 -- end to end: GET / on a root holding index.html                   *)
(***************************************************************************)
\* root_dir holds index.html whose content is exactly <h1>hi</h1>, and the
\* request is GET /.
IndexScenario ==
    /\ fs = FS_INDEXED
    /\ request # NoRequest
    /\ request.method = "GET"
    /\ request.path = <<SEP>>

\* C11 as stated: with a root directory holding index.html whose content is
\* exactly <h1>hi</h1>, the response written for GET / has status 200,
\* Content-Type text/html, a Content-Length of 12 and the body <h1>hi</h1>.
C11_IndexLength12 ==
    (IndexScenario /\ Written) =>
        /\ response.status_code = "Ok"
        /\ HeaderValues(response, "Content-Type") = <<"text/html">>
        /\ HeaderValues(response, "Content-Length") = <<"12">>
        /\ response.body = "<h1>hi</h1>"

\* C11 amended: the same response, with the Content-Length the body has:
\* <h1>hi</h1> is 11 bytes long.
C11_IndexLength11 ==
    (IndexScenario /\ Written) =>
        /\ to_code(response.status_code) = 200
        /\ HeaderValues(response, "Content-Type") = <<"text/html">>
        /\ HeaderValues(response, "Content-Length") = <<"11">>
        /\ response.body = "<h1>hi</h1>"
        /\ Len(response.body) = 11

C11_Witness ==
    /\ IndexScenario
    /\ Written
    /\ call.handler = "serve_file"
    /\ response.body = "<h1>hi</h1>"

(***************************************************************************)
(* C12 -- the OPTIONS branch of method_handle                              *)
(***************************************************************************)
\* The method list the OPTIONS headers carry.
SupportedList == comma_separated(<<"GET", "HEAD", "OPTIONS", "TRACE">>)

\* The dates method_handle can read from the clock.
ClockDates == {datetime_rfc_1123(t) : t \in Timestamps}

\* C12: for every OPTIONS request, the method_handle step empties the body,
\* leaves the status and every header the Content Resolver produced
\* unchanged and in place, and appends after them, in this order, Date,
\* Allow, Access-Control-Allow-Origin: * and Access-Control-Allow-Methods,
\* Allow and Access-Control-Allow-Methods both carrying the comma-joined
\* list GET, HEAD, OPTIONS, TRACE.
C12_OptionsAppends ==
    [][(pc = "method_handle" /\ request.method = "OPTIONS") =>
        LET n == Len(response.headers) IN
        /\ pc' = "server_transformation"
        /\ response'.body = ""
        /\ response'.status_code = response.status_code
        /\ response'.http_version = response.http_version
        /\ response'.cookies = response.cookies
        /\ Len(response'.headers) = n + 4
        /\ SubSeq(response'.headers, 1, n) = response.headers
        /\ response'.headers[n + 1][1] = "Date"
        /\ response'.headers[n + 1][2] \in ClockDates
        /\ response'.headers[n + 2] = <<"Allow", SupportedList>>
        /\ response'.headers[n + 3] = <<"Access-Control-Allow-Origin", "*">>
        /\ response'.headers[n + 4] = <<"Access-Control-Allow-Methods", SupportedList>>
      ]_vars

\* An OPTIONS request on a listed directory after method_handle: the two
\* resolver headers, then the four appended ones, and no body.
C12_Witness ==
    /\ pc = "server_transformation"
    /\ request.method = "OPTIONS"
    /\ call.handler = "serve_directory"
    /\ response.status_code = "Ok"
    /\ response.body = ""
    /\ HeaderNames(response) = <<"Content-Type", "Content-Length", "Date", "Allow",
                                 "Access-Control-Allow-Origin",
                                 "Access-Control-Allow-Methods">>

(***************************************************************************)
(* C13 -- the per-connection sequence of stages                            *)
(***************************************************************************)
\* The last Logger line of the connection has this level.
LastLogged(lg, level) == lg # <<>> /\ lg[Len(lg)].level = level

\* C13: for each accepted connection the handler runs a finite sequence
\* without retry: a parse failure logs a warning and writes nothing; after
\* a successful parse the stages run once each in the order serve,
\* method_handle, server_transformation, write, log (info when the write
\* succeeds, error when it fails); one request is read and at most one
\* response is written before the connection is closed.
C13_StagesInOrder ==
    [][ /\ (pc = "handle_request") =>
                \/ pc' = "serve" /\ request' # NoRequest /\ stream' = "" /\ log' = log
                \/ pc' = "closed" /\ request' = NoRequest /\ stream' = ""
                      /\ log' = <<[level |-> "warn", message |-> "Failed to read request."]>>
        /\ (pc = "serve") =>
                pc' = "method_handle" /\ request' = request /\ log' = log /\ stream' = ""
        /\ (pc = "method_handle") =>
                pc' = "server_transformation" /\ request' = request /\ log' = log
                    /\ stream' = ""
        /\ (pc = "server_transformation") =>
                pc' = "stream" /\ request' = request /\ log' = log /\ stream' = ""
        /\ (pc = "stream") =>
                /\ pc' = "closed" /\ request' = request /\ Len(log') = 1
                /\ \/ stream' = to_string(response) /\ LastLogged(log', "info")
                   \/ stream' = "" /\ LastLogged(log', "error")
        /\ (pc = "closed") => pc' = "handle_request"
      ]_vars

(***************************************************************************)
(* C15 -- the Server header of every written response                      *)
(***************************************************************************)
\* The response is the one handed to response.stream, or the one written.
ReadyToWrite == pc = "stream" \/ Written

\* C15: every response written to a connection, whatever the method branch
\* and status, carries exactly one Server header, its value is
\* Katana 0.1.0, and it is the last entry of the header list.
C15_ServerHeaderLast ==
    ReadyToWrite =>
        /\ HeaderValues(response, "Server") = <<"Katana 0.1.0">>
        /\ response.headers[Len(response.headers)] = <<"Server", "Katana 0.1.0">>

\* A 405 was written: the Allow header, then the Server header.
C15_Witness ==
    /\ Written
    /\ response.status_code = "MethodNotAllowed"
    /\ HeaderNames(response) = <<"Allow", "Server">>

(***************************************************************************)
(* C18 -- HEAD against GET                                                  *)
(***************************************************************************)
\* The GET pipeline on the path of the current request: serve, then
\* method_handle and server_transformation when serve returns.
GetServe == serve(fs, NewResponse, ROOT_DIR, request.path)

GetResult ==
    server_transformation(
        method_handle(GetServe.response, [request EXCEPT !.method = "GET"], 0))

\* C18: for every path and every filesystem state, the result of the HEAD
\* pipeline has the status and the header list of the GET pipeline's result
\* for the same path, the Content-Length of the unsent body included, and
\* an empty body; HEAD ends without a response exactly when GET does.
C18_HeadMatchesGet ==
    (request # NoRequest /\ request.method = "HEAD") =>
        /\ ReadyToWrite =>
              /\ ~GetServe.panicked
              /\ response.status_code = GetResult.status_code
              /\ response.headers = GetResult.headers
              /\ response.http_version = GetResult.http_version
              /\ response.cookies = GetResult.cookies
              /\ response.body = ""
        /\ pc = "panicked" => GetServe.panicked

\* HEAD on a file with content: the Content-Length of the file, no body.
C18_Witness ==
    /\ Written
    /\ request.method = "HEAD"
    /\ call.handler = "serve_file"
    /\ response.status_code = "Ok"
    /\ GetResult.body # ""
    /\ HeaderValues(response, "Content-Length") = <<LenStr(GetResult.body)>>
    /\ response.body = ""

(***************************************************************************)
(* method_handle on its own: every response serve returns, every method    *)
(***************************************************************************)
\* Request paths of at most one piece, and the longer ones that reach
\* particular files and directories.
ShallowPaths == {SlashJoined(segs) : segs \in SegmentSeqs(1)} \cup DeepPaths

\* The handler stands before method_handle: serve has returned.
InitMethodHandle ==
    /\ fs \in FileSystems
    /\ request \in {r \in Requests : r.path \in ShallowPaths}
    /\ ~serve(fs, NewResponse, ROOT_DIR, request.path).panicked
    /\ response = serve(fs, NewResponse, ROOT_DIR, request.path).response
    /\ call = Dispatch(fs, ROOT_DIR, request.path)
    /\ pc = "method_handle"
    /\ stream = ""
    /\ log = <<>>

NextMethodHandle ==
    \/ MethodHandle
    \/ ServerTransformation
    \/ StreamOk
    \/ StreamErr

SpecMethodHandle == InitMethodHandle /\ [][NextMethodHandle]_vars

(***************************************************************************)
(* C19 -- the five conditions of method_handle                             *)
(***************************************************************************)
Branches == {BRANCH_ORDER[i] : i \in 1..Len(BRANCH_ORDER)}

\* Every order in which the five `if`s can be written.
BranchOrders ==
    {o \in [1..Len(BRANCH_ORDER) -> Branches] :
        \A i, j \in 1..Len(BRANCH_ORDER) : i # j => o[i] # o[j]}

\* The branches whose condition holds for a method.
ApplicableBranches(method) == {b \in Branches : BranchApplies(b, method)}

\* C19: the five conditions of method_handle (GET, HEAD, OPTIONS, TRACE,
\* not in the supported set) are pairwise exclusive and jointly exhaustive
\* over the request methods, so exactly one branch applies to every
\* request, and evaluating the branches in any other order yields the
\* response method_handle yields.
C19_BranchesExclusive ==
    /\ \A m \in HttpMethods : Cardinality(ApplicableBranches(m)) = 1
    /\ (pc = "method_handle") =>
          /\ Cardinality(ApplicableBranches(request.method)) = 1
          /\ \A now \in Timestamps : \A o \in BranchOrders :
                ApplyBranches(o, response, request, now)
                    = method_handle(response, request, now)

\* A TRACE request about to be handled, for which the unsupported-method
\* branch placed first changes nothing.
C19_Witness ==
    /\ pc = "method_handle"
    /\ request.method = "TRACE"
    /\ ApplicableBranches(request.method) = {"TRACE"}
    /\ response.status_code = "NotFound"
    /\ ApplyBranches(<<"UNSUPPORTED", "TRACE", "OPTIONS", "HEAD", "GET">>,
                     response, request, 0).status_code = "Ok"

(***************************************************************************)
(* C20 -- Content-Length of GET and TRACE responses                        *)
(***************************************************************************)
\* The last n characters of a string.
Suffix(s, n) == SubSeq(s, Len(s) - n + 1, Len(s))

\* C20: every response written for a GET or TRACE request (file, directory
\* listing, error page or TRACE echo) carries exactly one Content-Length
\* header, its value is the byte length of the body, and that body is what
\* the connection receives after the blank line.
C20_ContentLengthIsBodyLength ==
    (request # NoRequest /\ request.method \in {"GET", "TRACE"}) =>
        /\ ReadyToWrite =>
              HeaderValues(response, "Content-Length")
                  = <<ToString(Len(response.body))>>
        /\ Written =>
              Suffix(stream, Len(response.body) + 4) = "\r\n\r\n" \o response.body

\* A directory listing was written for a GET request.
C20_Witness ==
    /\ Written
    /\ request.method = "GET"
    /\ call.handler = "serve_directory"
    /\ response.status_code = "Ok"
    /\ Len(response.body) > 0
    /\ HeaderValues(response, "Content-Length") = <<ToString(Len(response.body))>>

(***************************************************************************)
(* C17 -- the directory listing                                            *)
(***************************************************************************)
\* str::contains on the text of a body.
BodyContains(s, t) ==
    \E i \in 1..(Len(s) - Len(t) + 1) : SubSeq(s, i, i + Len(t) - 1) = t

\* Where t first starts in s; 0 when it does not occur.
FirstIndex(s, t) ==
    IF BodyContains(s, t)
    THEN CHOOSE i \in 1..(Len(s) - Len(t) + 1) :
            /\ SubSeq(s, i, i + Len(t) - 1) = t
            /\ \A j \in 1..(i - 1) : SubSeq(s, j, j + Len(t) - 1) # t
    ELSE 0

\* The children of a directory node, and those a listing may show.
ChildNames(n, kind) ==
    {fs[i].path[Len(fs[i].path)] : i \in
        {k \in 1..Len(fs) : /\ Len(fs[k].path) = Len(n) + 1
                            /\ IsDescendant(fs[k].path, n)
                            /\ fs[k].kind = kind}}

VisibleNames(n, kind) == {name \in ChildNames(n, kind) : ~IsDotName(name)}

HiddenNames(n) == {name \in ChildNames(n, "dir") \cup ChildNames(n, "file") : IsDotName(name)}

\* The end of the anchor that shows an entry name.
AnchorOf(name) == "'>" \o PathStr(name) \o "</a></li>"

\* serve was asked for a readable directory in the served tree that has no
\* index.html and no dot-prefixed name on the way from the root to it.
AccessibleDirectory ==
    /\ AfterServe
    /\ call.handler = "serve_directory"
    /\ NodeIsDir(fs, ServedNode)
    /\ NodeAt(fs, ServedNode).open_ok
    /\ IsDescendant(ServedNode, RootNode)
    /\ \A i \in (Len(RootNode) + 1)..Len(ServedNode) : ~IsDotName(ServedNode[i])

\* C17: for every accessible directory without index.html, serve_directory
\* returns status 200 with Content-Type text/html and a listing in which
\* the Empty Folder marker appears exactly when the directory has no entry
\* left after the dot-prefixed ones are skipped, the ".." parent link
\* appears exactly when the directory is not the root, no dot-prefixed
\* entry appears, and every directory anchor precedes every file anchor.
C17_ListingShape ==
    AccessibleDirectory =>
        LET body == response.body
            dirs == VisibleNames(ServedNode, "dir")
            files == VisibleNames(ServedNode, "file")
        IN /\ response.status_code = "Ok"
           /\ HeaderValues(response, "Content-Type") = <<"text/html">>
           /\ BodyContains(body, "Empty Folder") <=> (dirs \cup files = {})
           /\ BodyContains(body, AnchorOf(PARENT_DIR)) <=> (ServedNode # RootNode)
           /\ \A name \in HiddenNames(ServedNode) : ~BodyContains(body, AnchorOf(name))
           /\ \A name \in dirs \cup files : BodyContains(body, AnchorOf(name))
           /\ \A d \in dirs : \A f \in files :
                 FirstIndex(body, AnchorOf(d)) < FirstIndex(body, AnchorOf(f))

(***************************************************************************)
(* to_string on its own: responses of every shape                          *)
(***************************************************************************)
MaxHeaders == 2
MaxCookies == 1

\* The sequences of at most n elements of S.
RECURSIVE SeqsUpTo(_, _)
SeqsUpTo(S, n) ==
    IF n = 0 THEN {<<>>}
    ELSE LET shorter == SeqsUpTo(S, n - 1) IN
         shorter \cup {Append(q, x) : q \in shorter, x \in S}

\* Header and cookie pairs, some with whitespace around name and value.
HeaderPairs ==
    {<<"Content-Type", "text/html">>, <<" X-Pad ", "\tv 1 ">>, <<"X-Pad", "v 2\r\n">>}

CookiePairs == {<<"sid", "abc">>, <<" theme ", " dark ">>}

\* Bodies, one with whitespace and CRLFs inside and around it.
WireBodies == {"", "hi", " a\r\n\r\nb "}

\* The Response values to_string is applied to (its fields are public).
WireResponses ==
    [http_version : {"HTTP/1.1"}, status_code : HttpStatuses,
     headers : SeqsUpTo(HeaderPairs, MaxHeaders),
     cookies : SeqsUpTo(CookiePairs, MaxCookies),
     body : WireBodies]

\* A response of any shape is about to be written.
InitToString ==
    /\ fs = FS_PLAIN
    /\ request = [method |-> "GET", path |-> <<SEP>>, http_version |-> "HTTP/1.1",
                  headers |-> <<<<"Host", "localhost">>>>]
    /\ response \in WireResponses
    /\ call = NoCall
    /\ pc = "stream"
    /\ stream = ""
    /\ log = <<>>

NextToString ==
    \/ StreamOk
    \/ StreamErr

SpecToString == InitToString /\ [][NextToString]_vars

(***************************************************************************)
(* C16 -- the wire format                                                  *)
(***************************************************************************)
\* The text between the first and the last character of s that is not
\* whitespace; empty when there is none.
Trimmed(s) ==
    LET solid == {i \in 1..Len(s) : SubSeq(s, i, i) \notin {" ", "\t", "\r", "\n"}} IN
    IF solid = {} THEN ""
    ELSE SubSeq(s, CHOOSE i \in solid : \A j \in solid : i <= j,
                   CHOOSE i \in solid : \A j \in solid : i >= j)

\* The first n CRLF-ended lines of s, and what follows them.
RECURSIVE SplitLines(_, _)
SplitLines(s, n) ==
    IF n = 0 \/ ~BodyContains(s, "\r\n") THEN [lines |-> <<>>, rest |-> s]
    ELSE LET i == FirstIndex(s, "\r\n")
             more == SplitLines(SubSeq(s, i + 2, Len(s)), n - 1)
         IN [lines |-> <<SubSeq(s, 1, i - 1)>> \o more.lines, rest |-> more.rest]

\* The written bytes read back: the status line, one line per header, one
\* per cookie, the blank line, and the rest.
Wire ==
    SplitLines(stream, Len(response.headers) + Len(response.cookies) + 2)

\* What C16 says of the status line, the header lines, the blank line and
\* the body.
WireFrame ==
    LET h == Len(response.headers)
        c == Len(response.cookies)
    IN /\ Len(Wire.lines) = h + c + 2
       /\ Wire.lines[1] = response.http_version \o " "
                             \o ToString(to_code(response.status_code)) \o " "
                             \o to_message(response.status_code)
       /\ \A i \in 1..h :
             Wire.lines[1 + i] = Trimmed(response.headers[i][1]) \o ": "
                                    \o Trimmed(response.headers[i][2])
       /\ Wire.lines[h + c + 2] = ""
       /\ Wire.rest = response.body

\* C16 as stated: to_string emits the status line `<version> <code>
\* <reason>`, one line `<name>: <value>` per header with name and value
\* trimmed, in list order with duplicates kept, one line
\* `Set-Cookie: <name>=<value>` per cookie in list order with the cookie's
\* name and value as they are, a blank line, and the body verbatim with
\* nothing after it.
C16_WireFormatCookiesVerbatim ==
    Written =>
        /\ WireFrame
        /\ \A j \in 1..Len(response.cookies) :
              Wire.lines[1 + Len(response.headers) + j]
                  = "Set-Cookie: " \o response.cookies[j][1] \o "="
                        \o response.cookies[j][2]

\* C16 amended: the same format, with the name and the value of every
\* cookie trimmed like those of the headers.
C16_WireFormatCookiesTrimmed ==
    Written =>
        /\ WireFrame
        /\ \A j \in 1..Len(response.cookies) :
              Wire.lines[1 + Len(response.headers) + j]
                  = "Set-Cookie: " \o Trimmed(response.cookies[j][1]) \o "="
                        \o Trimmed(response.cookies[j][2])

\* A response with the same padded header twice, a padded cookie and a
\* body with whitespace around it was written.
C16_Witness ==
    /\ Written
    /\ response.headers = <<<<" X-Pad ", "\tv 1 ">>, <<" X-Pad ", "\tv 1 ">>>>
    /\ response.cookies = <<<<" theme ", " dark ">>>>
    /\ response.body = " a\r\n\r\nb "
    /\ Wire.lines[2] = "X-Pad: v 1"
    /\ Wire.lines[3] = "X-Pad: v 1"
    /\ Wire.lines[4] = "Set-Cookie: theme=dark"

(***************************************************************************)
(* The listener with one thread per connection                             *)
(*                                                                         *)
(* In this specification pc, request, response, call, stream and log hold  *)
(* one value per connection: each thread owns its Server (built from the   *)
(* cloned config and templates), its TcpStream, its Request and Response.  *)
(* pc[LISTENER] is the thread that runs Server::serve.  The filesystem is  *)
(* the only thing the threads share, and they only read it.                *)
(***************************************************************************)
MaxConnections == 2

Connections == 1..MaxConnections

LISTENER == 0

\* The requests the connections carry: a file (200), a file without
\* extension (serve_file panics), a directory listing under OPTIONS, and an
\* unsupported method (405).
ConcRequests ==
    {[method |-> mp[1], path |-> SlashJoined(<<mp[2]>>), http_version |-> "HTTP/1.1",
      headers |-> <<<<"Host", "localhost">>>>] :
        mp \in {<<"GET", A_TXT>>, <<"HEAD", <<"README">>>>, <<"OPTIONS", PUB>>,
                <<"POST", <<"missing", DOT, "txt">>>>}}

\* A panic in every thread at once, as if it ended the process.
Unwind_Abort(c, pcs) == [d \in DOMAIN pcs |-> "panicked"]

\* A panic inside the closure given to thread::spawn unwinds that thread;
\* its JoinHandle was dropped, so no other thread observes it.
Unwind(c, pcs) == [pcs EXCEPT ![c] = "panicked"]

InitConc ==
    /\ fs = FS_PLAIN
    /\ pc = [c \in Connections \cup {LISTENER} |->
                IF c = LISTENER THEN "accepting" ELSE "waiting"]
    /\ request = [c \in Connections |-> NoRequest]
    /\ response = [c \in Connections |-> NewResponse]
    /\ call = [c \in Connections |-> NoCall]
    /\ stream = [c \in Connections |-> ""]
    /\ log = [c \in Connections |-> <<>>]

\* Server::serve: listener.incoming() yields connection c and its thread is
\* spawned.
ConnAccept(c) ==
    /\ pc[LISTENER] = "accepting"
    /\ pc[c] = "waiting"
    /\ pc' = [pc EXCEPT ![c] = "handle_request"]
    /\ UNCHANGED <<fs, request, response, call, stream, log>>

\* Server::handle_request in the thread of c: a request is parsed.
ConnHandleRequest(c) ==
    /\ pc[c] = "handle_request"
    /\ \E req \in ConcRequests : request' = [request EXCEPT ![c] = req]
    /\ pc' = [pc EXCEPT ![c] = "serve"]
    /\ UNCHANGED <<fs, response, call, stream, log>>

\* Server::handle_request in the thread of c: Request::from_stream yields None.
ConnParseFailure(c) ==
    /\ pc[c] = "handle_request"
    /\ log' = [log EXCEPT ![c] = Append(@, [level |-> "warn",
                                            message |-> "Failed to read request."])]
    /\ pc' = [pc EXCEPT ![c] = "closed"]
    /\ UNCHANGED <<fs, request, response, call, stream>>

\* response.serve in the thread of c.
ConnServe(c) ==
    /\ pc[c] = "serve"
    /\ LET r == serve(fs, response[c], ROOT_DIR, request[c].path) IN
        /\ call' = [call EXCEPT ![c] = Dispatch(fs, ROOT_DIR, request[c].path)]
        /\ response' = [response EXCEPT ![c] = r.response]
        /\ pc' = IF r.panicked THEN Unwind(c, pc)
                 ELSE [pc EXCEPT ![c] = "method_handle"]
    /\ UNCHANGED <<fs, request, stream, log>>

\* self.method_handle in the thread of c.
ConnMethodHandle(c) ==
    /\ pc[c] = "method_handle"
    /\ \E now \in Timestamps :
          response' = [response EXCEPT ![c] = method_handle(@, request[c], now)]
    /\ pc' = [pc EXCEPT ![c] = "server_transformation"]
    /\ UNCHANGED <<fs, request, call, stream, log>>

\* self.server_transformation in the thread of c.
ConnServerTransformation(c) ==
    /\ pc[c] = "server_transformation"
    /\ response' = [response EXCEPT ![c] = server_transformation(@)]
    /\ pc' = [pc EXCEPT ![c] = "stream"]
    /\ UNCHANGED <<fs, request, call, stream, log>>

\* response.stream succeeds in the thread of c, and the outcome is logged.
ConnStreamOk(c) ==
    /\ pc[c] = "stream"
    /\ stream' = [stream EXCEPT ![c] = to_string(response[c])]
    /\ log' = [log EXCEPT ![c] =
                  Append(@, [level |-> "info",
                             message |-> ToString(to_code(response[c].status_code))])]
    /\ pc' = [pc EXCEPT ![c] = "closed"]
    /\ UNCHANGED <<fs, request, response, call>>

\* response.stream fails in the thread of c.
ConnStreamErr(c) ==
    /\ pc[c] = "stream"
    /\ log' = [log EXCEPT ![c] = Append(@, [level |-> "error",
                                            message |-> "write failed"])]
    /\ pc' = [pc EXCEPT ![c] = "closed"]
    /\ UNCHANGED <<fs, request, response, call, stream>>

\* The next step of the thread of c outside response.serve, whatever it is.
ConnStep(c) ==
    \/ ConnHandleRequest(c)
    \/ ConnParseFailure(c)
    \/ ConnMethodHandle(c)
    \/ ConnServerTransformation(c)
    \/ ConnStreamOk(c)
    \/ ConnStreamErr(c)

ConcAccept == \E c \in Connections : ConnAccept(c)

ConcHandleRequest == \E c \in Connections : ConnHandleRequest(c)

ConcParseFailure == \E c \in Connections : ConnParseFailure(c)

ConcServe == \E c \in Connections : ConnServe(c)

ConcMethodHandle == \E c \in Connections : ConnMethodHandle(c)

ConcServerTransformation == \E c \in Connections : ConnServerTransformation(c)

ConcStreamOk == \E c \in Connections : ConnStreamOk(c)

ConcStreamErr == \E c \in Connections : ConnStreamErr(c)

NextConc ==
    \/ ConcAccept
    \/ ConcHandleRequest
    \/ ConcParseFailure
    \/ ConcServe
    \/ ConcMethodHandle
    \/ ConcServerTransformation
    \/ ConcStreamOk
    \/ ConcStreamErr

SpecConc == InitConc /\ [][NextConc]_vars

(***************************************************************************)
(* C14 -- isolation of the connections                                     *)
(***************************************************************************)
\* The thread of c has ended.
Ended(c) == pc[c] \in {"closed", "panicked"}

\* What the handler of c yields when it runs alone on the request of c.
AloneServe(c) == serve(fs, NewResponse, ROOT_DIR, request[c].path)

AloneResults(c) ==
    {server_transformation(method_handle(AloneServe(c).response, request[c], now)) :
        now \in Timestamps}

\* The bytes are a status line, header lines, a blank line and a body.
WellFormed(bytes, resp) ==
    LET head == resp.http_version \o " " \o ToString(to_code(resp.status_code)) \o " " IN
    /\ Len(bytes) > Len(head)
    /\ SubSeq(bytes, 1, Len(head)) = head
    /\ BodyContains(bytes, "\r\nServer: Katana 0.1.0\r\n\r\n")
    /\ Suffix(bytes, Len(resp.body)) = resp.body

\* How the connection of c ended, seen from its client.
Outcome(c) ==
    \/ /\ pc[c] = "closed" /\ stream[c] # ""
       /\ response[c] \in AloneResults(c)
       /\ WellFormed(stream[c], response[c])
    \/ /\ pc[c] = "closed" /\ stream[c] = ""
       /\ \/ request[c] = NoRequest /\ LastLogged(log[c], "warn")
          \/ request[c] # NoRequest /\ LastLogged(log[c], "error")
    \/ /\ pc[c] = "panicked" /\ stream[c] = ""
       /\ AloneServe(c).panicked

\* The thread of c can take its next step: response.serve needs nothing
\* but the thread's own request and returns or panics; every other stage
\* is enabled as the specification stands.
CanStep(c) ==
    IF pc[c] = "serve" THEN AloneServe(c).panicked \in BOOLEAN
    ELSE ENABLED ConnStep(c)

\* Whatever the other threads did, the listener accepts a waiting
\* connection, a running thread can take its next step, and an ended
\* connection got the response of its own request or was dropped.
Isolated ==
    /\ pc[LISTENER] = "accepting"
    /\ \A c \in Connections :
          /\ pc[c] = "waiting" => ENABLED ConnAccept(c)
          /\ (pc[c] # "waiting" /\ ~Ended(c)) => CanStep(c)
          /\ Ended(c) => Outcome(c)
          /\ ~Ended(c) => stream[c] = ""

\* A step is the step of one thread and leaves every other connection as
\* it was.
OneThreadSteps ==
    \E c \in Connections : \A d \in (Connections \cup {LISTENER}) \ {c} :
        /\ pc'[d] = pc[d]
        /\ d # LISTENER =>
              /\ request'[d] = request[d]
              /\ response'[d] = response[d]
              /\ stream'[d] = stream[d]
              /\ log'[d] = log[d]

\* C14: with several connections handled concurrently by per-connection
\* threads, under every interleaving a failure in one connection (parse
\* failure, write failure or a panic inside its handler) changes neither
\* the response nor the completion of any other connection, the listener
\* keeps accepting new connections, and every connection either receives a
\* well-formed HTTP response or is dropped alone.
C14_ConnectionsIsolated == []Isolated /\ [][OneThreadSteps]_vars

\* The handler of one connection has panicked and the other connection got
\* the 200 of its own request.
C14_Witness ==
    /\ pc[1] = "panicked"
    /\ pc[2] = "closed"
    /\ stream[2] # ""
    /\ response[2].status_code = "Ok"
    /\ request[2].method = "GET"

(***************************************************************************)
(* datetime_rfc_1123 on its own: clock readings from 1970 into 2101        *)
(***************************************************************************)
\* The last day read, in days since the epoch: 2101-01-01.  The range holds
\* the leap century year 2000 and the common century year 2100.
MaxDay == 47846

\* Seconds into the day: its first second, 12:34:56, its last second.
SecondsOfDay == {0, 45296, 86399}

\* SystemTime::now() as the pair secs / 86400, secs % 86400.
ClockReadings == (0..MaxDay) \X SecondsOfDay

\* An OPTIONS request for a path that names nothing has been served, and
\* the clock stands at one of the readings.
InitClock ==
    /\ fs = FS_PLAIN
    /\ request = [method |-> "OPTIONS",
                  path |-> SlashJoined(<<<<"missing", DOT, "txt">>>>),
                  http_version |-> "HTTP/1.1",
                  headers |-> <<<<"Host", "localhost">>>>]
    /\ response = serve_error_response(NewResponse, "NotFound")
    /\ \E reading \in ClockReadings :
          call = [handler |-> "datetime_rfc_1123", path |-> reading]
    /\ pc = "method_handle"
    /\ stream = ""
    /\ log = <<>>

\* self.method_handle for the OPTIONS request: the branch reads the clock.
ClockMethodHandle ==
    /\ pc = "method_handle"
    /\ call.handler = "datetime_rfc_1123"
    /\ response' = OptionsHeaders(response,
                       FormatDate(DateFieldsOf(call.path[1], call.path[2])))
    /\ pc' = "server_transformation"
    /\ UNCHANGED <<fs, request, call, stream, log>>

NextClock == ClockMethodHandle

SpecClock == InitClock /\ [][NextClock]_vars

(***************************************************************************)
(* C21 -- the calendar of datetime_rfc_1123                                *)
(***************************************************************************)
\* The proleptic Gregorian date of a day count, by the era arithmetic of
\* 400-year cycles counted from 0000-03-01.
CivilFromDays(days) ==
    LET z == days + 719468
        era == z \div 146097
        doe == z - era * 146097
        yoe == (doe - doe \div 1460 + doe \div 36524 - doe \div 146096) \div 365
        doy == doe - (365 * yoe + yoe \div 4 - yoe \div 100)
        mp == (5 * doy + 2) \div 153
        m == IF mp < 10 THEN mp + 3 ELSE mp - 9
    IN [year |-> yoe + era * 400 + (IF m <= 2 THEN 1 ELSE 0),
        month |-> m,
        day |-> doy - (153 * mp + 2) \div 5 + 1]

\* The weekday of a day count: 1970-01-01 was a Thursday.
WeekdayOfDays(days) ==
    <<"Sun", "Mon", "Tue", "Wed", "Thu", "Fri", "Sat">>[((days + 4) % 7) + 1]

MonthAbbreviations ==
    <<"Jan", "Feb", "Mar", "Apr", "May", "Jun", "Jul", "Aug", "Sep", "Oct", "Nov", "Dec">>

\* The decimal digits of n, padded with zeros to the given width.
RECURSIVE Digits(_, _)
Digits(n, width) ==
    IF width = 0 THEN ""
    ELSE Digits(n \div 10, width - 1) \o ToString(n % 10)

\* `<Wkd>, DD <Mon> YYYY HH:MM:SS GMT` for a clock reading, from the
\* calendar.
CalendarText(days, secs_of_day) ==
    LET c == CivilFromDays(days) IN
    WeekdayOfDays(days) \o ", " \o Digits(c.day, 2) \o " "
        \o MonthAbbreviations[c.month] \o " " \o Digits(c.year, 4) \o " "
        \o Digits(secs_of_day \div 3600, 2) \o ":"
        \o Digits((secs_of_day \div 60) % 60, 2) \o ":"
        \o Digits(secs_of_day % 60, 2) \o " GMT"

\* The clock was read and the Date header pushed.
ClockRead == pc = "server_transformation" /\ call.handler = "datetime_rfc_1123"

\* C21: for every clock reading of the range (leap years, the century
\* years 2000 and 2100, year boundaries), the year, month, day of the month
\* and weekday that datetime_rfc_1123 computes are those of the proleptic
\* Gregorian calendar in UTC, the month index is within 0..11, and the
\* text has the form `<Wkd>, DD <Mon> YYYY HH:MM:SS GMT`.
C21_CalendarCorrect ==
    ClockRead =>
        LET days == call.path[1]
            d == DateFieldsOf(days, call.path[2])
            c == CivilFromDays(days)
            date == HeaderValues(response, "Date")
        IN /\ d.month \in 0..11
           /\ d.year = c.year
           /\ d.month + 1 = c.month
           /\ d.day = c.day
           /\ weekday_names[d.weekday + 1] = WeekdayOfDays(days)
           /\ date = <<CalendarText(days, call.path[2])>>
           /\ Len(date[1]) = 29

\* The clock was read in the first second of 2100-03-01, the day after
\* 2100-02-28.
C21_Witness ==
    /\ ClockRead
    /\ call.path = <<47541, 0>>
    /\ HeaderValues(response, "Date") = <<"Mon, 01 Mar 2100 00:00:00 GMT">>

=============================================================================
